---- MODULE Spec2Model ----
(***************************************************************************)
(* Model of internal/commands/document.go of konstraint: the "doc"        *)
(* command.  runDocCommand creates the output directory, calls            *)
(* getDocumentation (one loop iteration per policy, then the sort), parses *)
(* the template, opens the output file with O_TRUNC and executes the       *)
(* template into it.                                                       *)
(*                                                                         *)
(* Text that the code inspects character by character (titles, policy     *)
(* ids, matcher strings) is a sequence of one-character strings; text the  *)
(* code only copies or concatenates (descriptions, sources, severities,    *)
(* urls) is a TLA+ string.  An optional (pointer) value is a sequence of   *)
(* length 0 (nil) or 1.                                                    *)
(***************************************************************************)
EXTENDS Integers, Sequences, FiniteSets, TLC

VARIABLES cfg, policies, pc, i, documents, origin, result, err, file, log, fn

vars == <<cfg, policies, pc, i, documents, origin, result, err, file, log, fn>>

mainVars == <<cfg, policies, pc, i, documents, origin, result, err, file, log>>

(***************************************************************************)
(* Bounds                                                                  *)
(***************************************************************************)
MaxPolicies == 2

AnchorMaxLen == 2

(***************************************************************************)
(* Characters and strings                                                  *)
(***************************************************************************)
\* Byte value of every character the model uses (Go compares strings
\* byte-wise).
Byte ==
    (" " :> 32) @@ ("-" :> 45) @@ ("/" :> 47) @@ ("1" :> 49) @@ ("2" :> 50) @@
    (":" :> 58) @@ ("=" :> 61) @@
    ("A" :> 65) @@ ("B" :> 66) @@ ("I" :> 73) @@ ("L" :> 76) @@ ("O" :> 79) @@
    ("P" :> 80) @@ ("R" :> 82) @@ ("[" :> 91) @@ ("]" :> 93) @@
    ("a" :> 97) @@ ("b" :> 98) @@ ("e" :> 101) @@ ("i" :> 105) @@
    ("l" :> 108) @@ ("n" :> 110) @@ ("o" :> 111) @@ ("p" :> 112) @@
    ("q" :> 113) @@ ("r" :> 114) @@ ("s" :> 115) @@ ("u" :> 117) @@
    ("," :> 44) @@ ("c" :> 99) @@ ("k" :> 107) @@ ("y" :> 121)

Chars == DOMAIN Byte

\* s < t for Go strings: lexicographic on bytes, a proper prefix is smaller.
RECURSIVE StrLess(_, _)
StrLess(s, t) ==
    IF t = <<>> THEN FALSE
    ELSE IF s = <<>> THEN TRUE
    ELSE IF Byte[Head(s)] # Byte[Head(t)] THEN Byte[Head(s)] < Byte[Head(t)]
    ELSE StrLess(Tail(s), Tail(t))

\* strings.ReplaceAll(s, old, new) for a one-character old; new is a string
\* (possibly empty).
RECURSIVE ReplaceAll(_, _, _)
ReplaceAll(s, old, new) ==
    IF s = <<>> THEN <<>>
    ELSE (IF Head(s) = old THEN new ELSE <<Head(s)>>)
             \o ReplaceAll(Tail(s), old, new)

\* unicode.ToLower on one character: 'A'..'Z' map to 'a'..'z'.
LowerChar(c) ==
    IF Byte[c] >= 65 /\ Byte[c] <= 90
    THEN CHOOSE d \in Chars : Byte[d] = Byte[c] + 32
    ELSE c

\* strings.ToLower
ToLower(s) == [k \in 1..Len(s) |-> LowerChar(s[k])]

\* strings.TrimSpace: drop leading and trailing white space.
RECURSIVE TrimLeft(_)
TrimLeft(s) ==
    IF s # <<>> /\ Head(s) = " " THEN TrimLeft(Tail(s)) ELSE s

RECURSIVE TrimRight(_)
TrimRight(s) ==
    IF s # <<>> /\ s[Len(s)] = " " THEN TrimRight(SubSeq(s, 1, Len(s) - 1))
    ELSE s

TrimSpace(s) == TrimRight(TrimLeft(s))

\* strings.TrimSuffix(s, ", ")
TrimSuffix(s) ==
    IF Len(s) >= 2 /\ s[Len(s) - 1] = "," /\ s[Len(s)] = " "
    THEN SubSeq(s, 1, Len(s) - 2)
    ELSE s

\* All orders in which a range loop can visit the keys of a Go map: every
\* enumeration of the key set without repetition.
Orders(S) ==
    {o \in [1..Cardinality(S) -> S] : \A a, b \in DOMAIN o : a # b => o[a] # o[b]}

(***************************************************************************)
(* Per-policy computations of getDocumentation                             *)
(***************************************************************************)
\* documentTitle: the title, prefixed by "<PolicyID>: " when there is one.
DocumentTitle(p) ==
    IF p.PolicyID # <<>> THEN p.PolicyID \o <<":", " ">> \o p.Title
    ELSE p.Title

\* Anchor without the second ReplaceAll: the colons stay.
AnchorKeepsColon(documentTitle) ==
    ToLower(ReplaceAll(documentTitle, " ", <<"-">>))

\* anchor: spaces to hyphens, lower case, colons removed.
Anchor(documentTitle) ==
    ReplaceAll(ToLower(ReplaceAll(documentTitle, " ", <<"-">>)), ":", <<>>)

\* The loop over AnnotationKindMatchers: each akm.String() followed by " ".
\* A structured kind matcher is represented by the string its String()
\* method returns.
RECURSIVE ConcatKindMatchers(_)
ConcatKindMatchers(akms) ==
    IF akms = <<>> THEN <<>>
    ELSE Head(akms) \o <<" ">> \o ConcatKindMatchers(Tail(akms))

\* matchResources before the empty check.
KindMatchersString(p) ==
    IF Len(p.AnnotationKindMatchers) > 0
    THEN TrimSpace(ConcatKindMatchers(p.AnnotationKindMatchers))
    ELSE p.LegacyKindMatchers

AnyResource == <<"A", "n", "y", " ", "R", "e", "s", "o", "u", "r", "c", "e">>

\* matchResources with the empty check inside the legacy branch only.
MatchResourcesLegacyCheck(p) ==
    IF Len(p.AnnotationKindMatchers) > 0 THEN KindMatchersString(p)
    ELSE IF p.LegacyKindMatchers = <<>> THEN AnyResource
    ELSE p.LegacyKindMatchers

\* matchResources as stored in the Header.
MatchResources(p) ==
    IF KindMatchersString(p) = <<>> THEN AnyResource ELSE KindMatchersString(p)

\* fmt "%v" of a []string: the elements separated by spaces, in brackets.
RECURSIVE JoinSpace(_)
JoinSpace(vs) ==
    IF vs = <<>> THEN <<>>
    ELSE IF Len(vs) = 1 THEN Head(vs)
    ELSE Head(vs) \o <<" ">> \o JoinSpace(Tail(vs))

FormatValues(vs) == <<"[">> \o JoinSpace(vs) \o <<"]">>

\* First loop of labelSelectorDocString, visiting the keys of MatchLabels in
\* the order given.
RECURSIVE LabelEntries(_, _)
LabelEntries(labels, order) ==
    IF order = <<>> THEN <<>>
    ELSE Head(order) \o <<"=">> \o labels[Head(order)] \o <<",", " ">>
             \o LabelEntries(labels, Tail(order))

\* Second loop of labelSelectorDocString.
RECURSIVE ExprEntries(_)
ExprEntries(exprs) ==
    IF exprs = <<>> THEN <<>>
    ELSE Head(exprs).Key \o <<" ">> \o Head(exprs).Operator \o <<" ">>
             \o FormatValues(Head(exprs).Values) \o <<",", " ">>
             \o ExprEntries(Tail(exprs))

\* labelSelectorDocString, for one iteration order of the MatchLabels map.
LabelSelectorDocString(selector, order) ==
    TrimSuffix(LabelEntries(selector.MatchLabels, order)
                   \o ExprEntries(selector.MatchExpressions))

\* The orders in which the range loop can visit selector.MatchLabels.
LabelOrders(selector) == Orders(DOMAIN selector.MatchLabels)

\* One element appended by annoParamsToLegacyFormat.
ConvertParam(name, config) ==
    IF config.Type = "array"
    THEN [Name |-> name, Description |-> config.Description,
          IsArray |-> TRUE, Type |-> config.Items[1].Schema[1].Type]
    ELSE [Name |-> name, Description |-> config.Description,
          IsArray |-> FALSE, Type |-> config.Type]

\* config.Items.Schema.Type dereferences two pointers; either may be nil.
NilDeref(config) ==
    IF config.Type # "array" THEN FALSE
    ELSE IF config.Items = <<>> THEN TRUE
    ELSE config.Items[1].Schema = <<>>

\* annoParamsToLegacyFormat panics when it reaches such an entry.
ParamsPanic(parameters) ==
    \E name \in DOMAIN parameters : NilDeref(parameters[name])

\* annoParamsToLegacyFormat, for one iteration order of the map.
AnnoParamsToLegacyFormat(parameters, order) ==
    [k \in 1..Len(order) |-> ConvertParam(order[k], parameters[order[k]])]

\* The Rego field with include-comments tested before no-rego.
RegoTextCommentsFirst(p, c) ==
    IF c.includeComments THEN p.FullSource
    ELSE IF c.noRego THEN "" ELSE p.Source

\* The Rego field of the Document.
RegoText(p, c) ==
    IF c.noRego THEN ""
    ELSE IF c.includeComments THEN p.FullSource ELSE p.Source

\* The bucket with the enforcement mode tested before the severity.
BucketEnforcementFirst(p) ==
    IF p.Enforcement = "dryrun" THEN "Not Enforced"
    ELSE IF p.Severity = "" THEN "Other"
    ELSE p.Severity

\* The key of the map entry the Document is appended to.
Bucket(p) ==
    IF p.Severity = "" THEN "Other"
    ELSE IF p.Enforcement = "dryrun" THEN "Not Enforced"
    ELSE p.Severity

(***************************************************************************)
(* Paths: a path is the sequence of its components; relative paths are     *)
(* relative to the working directory Cwd.                                  *)
(***************************************************************************)
Cwd == <<"w">>

\* The components joined by sep.
RECURSIVE JoinPath(_, _)
JoinPath(parts, sep) ==
    IF parts = <<>> THEN ""
    ELSE IF Len(parts) = 1 THEN Head(parts)
    ELSE Head(parts) \o sep \o JoinPath(Tail(parts), sep)

\* filepath.Abs of a relative path once the working directory is known.
Abs(parts) == Cwd \o parts

\* Length of the longest common prefix.
RECURSIVE CommonLen(_, _)
CommonLen(a, b) ==
    IF a # <<>> /\ b # <<>> /\ Head(a) = Head(b)
    THEN 1 + CommonLen(Tail(a), Tail(b))
    ELSE 0

\* filepath.Rel(base, targ) for two absolute paths.
Rel(base, targ) ==
    LET n == CommonLen(base, targ)
        up == [k \in 1..(Len(base) - n) |-> ".."]
        down == SubSeq(targ, n + 1, Len(targ))
    IN IF up \o down = <<>> THEN <<".">> ELSE up \o down

\* filepath.Dir of a relative path.
Dir(parts) ==
    IF Len(parts) <= 1 THEN <<".">> ELSE SubSeq(parts, 1, Len(parts) - 1)

\* filepath.Dir(viper.GetString("output")), as components ("." is empty).
OutputDirectory(c) == SubSeq(c.output, 1, Len(c.output) - 1)

\* The url of the Document when path resolution succeeds.
\* os.PathSeparator is the separator the paths are joined with, so replacing
\* it by "/" yields the components joined by "/".
URL(p, c) ==
    IF c.url # "" THEN c.url \o "/" \o JoinPath(p.Path, "/")
    ELSE JoinPath(Dir(Rel(Abs(OutputDirectory(c)), Abs(p.Path))), "/")

\* The Document built for policy p when nothing fails.
MakeDocument(p, c, labelOrder, paramOrder) ==
    [Header |->
        [Title |-> DocumentTitle(p),
         Description |-> p.Description,
         Resources |-> MatchResources(p),
         MatchLabels |->
            IF p.AnnotationLabelSelectorMatcher # <<>>
            THEN LabelSelectorDocString(p.AnnotationLabelSelectorMatcher[1],
                                        labelOrder)
            ELSE p.LegacyMatchLabels,
         Anchor |-> Anchor(DocumentTitle(p)),
         Parameters |->
            IF Cardinality(DOMAIN p.AnnotationParameters) > 0
            THEN AnnoParamsToLegacyFormat(p.AnnotationParameters, paramOrder)
            ELSE p.Parameters],
     URL |-> URL(p, c),
     Rego |-> RegoText(p, c)]

(***************************************************************************)
(* Inputs                                                                  *)
(***************************************************************************)
\* A policy with both annotation styles filled in.
Base ==
    [Kind |-> "K",
     Path |-> <<"sub", "policy.rego">>,
     Title |-> <<"B">>,
     PolicyID |-> <<>>,
     Description |-> "d",
     Severity |-> "high",
     Enforcement |-> "deny",
     MatchersErr |-> FALSE,
     AnnotationKindMatchers |-> << <<"a", "/", "p">>, <<"b">> >>,
     LegacyKindMatchers |-> <<"k">>,
     AnnotationLabelSelectorMatcher |-> <<>>,
     LegacyMatchLabels |-> <<"l">>,
     Parameters |->
        << [Name |-> "old", Description |-> "", IsArray |-> FALSE,
            Type |-> "string"] >>,
     AnnotationParameters |-> <<>>,
     FullSource |-> "# c rego",
     Source |-> "rego"]

ArrayOfString ==
    [Type |-> "array", Description |-> "t",
     Items |-> << [Schema |-> << [Type |-> "string"] >>] >>]

ArrayWithoutItems == [Type |-> "array", Description |-> "t", Items |-> <<>>]

Scalar == [Type |-> "integer", Description |-> "c", Items |-> <<>>]

TwoLabels ==
    [MatchLabels |-> (<<"b">> :> <<"1">>) @@ (<<"a">> :> <<"2">>),
     MatchExpressions |->
        << [Key |-> <<"k">>, Operator |-> <<"I", "n">>,
            Values |-> << <<"a">>, <<"b">> >>] >>]

PolicySet ==
    {Base,
     [Base EXCEPT !.Title = <<>>, !.Severity = "", !.Enforcement = "dryrun",
                  !.MatchersErr = TRUE, !.AnnotationKindMatchers = <<>>,
                  !.LegacyKindMatchers = <<>>,
                  !.AnnotationParameters = [tags |-> ArrayWithoutItems]],
     [Base EXCEPT !.PolicyID = <<"A">>, !.Title = <<"P", " ", "a">>],
     [Base EXCEPT !.Severity = "", !.Enforcement = "dryrun"],
     [Base EXCEPT !.Enforcement = "dryrun"],
     [Base EXCEPT !.Description = "d2"],
     [Base EXCEPT !.Title = <<"a">>, !.AnnotationKindMatchers = <<>>],
     [Base EXCEPT !.AnnotationKindMatchers = <<>>,
                  !.LegacyKindMatchers = <<>>],
     [Base EXCEPT !.AnnotationKindMatchers = << <<>> >>],
     [Base EXCEPT !.AnnotationLabelSelectorMatcher = <<TwoLabels>>],
     [Base EXCEPT !.Severity = "low",
                  !.AnnotationParameters =
                      [tags |-> ArrayOfString, n |-> Scalar]],
     [Base EXCEPT !.AnnotationParameters = [tags |-> ArrayWithoutItems]],
     [Base EXCEPT !.MatchersErr = TRUE]}

\* The policy lists rego.GetAllSeveritiesWithoutImports can return.
PolicyLists == UNION {[1..n -> PolicySet] : n \in 0..MaxPolicies}

\* The settings viper holds: url, no-rego, include-comments, output.
Configs ==
    [url : {"", "https://h"},
     noRego : BOOLEAN,
     includeComments : BOOLEAN,
     output : {<<"docs", "policies.md">>}]

\* Keys the documents map can get.
BucketKeys ==
    {"Other", "Not Enforced"} \cup ({p.Severity : p \in PolicySet} \ {""})

EmptyMap == [b \in BucketKeys |-> <<>>]

FnIdle ==
    [pc |-> "idle", policy |-> <<>>, documentTitle |-> <<>>, anchor |-> <<>>]

(***************************************************************************)
(* sortPoliciesByTitle                                                     *)
(***************************************************************************)
\* less(i, j) of the sort.Slice call.
Less(a, b) == StrLess(a.Header.Title, b.Header.Title)

\* A sort that leaves the slice as it is.
SortSliceNoop(docs) == {docs}

\* What sort.Slice can leave in a slice: a rearrangement in which no element
\* is less than its predecessor.  sort.Slice is documented as not stable, so
\* elements with equal titles may come out in any order.
SortSlice(docs) ==
    {[k \in 1..Len(docs) |-> docs[o[k]]] : o \in
        {o \in Orders(1..Len(docs)) :
            \A k \in 1..(Len(docs) - 1) : ~Less(docs[o[k + 1]], docs[o[k]])}}

\* The maps sortPoliciesByTitle can leave: every slice sorted in place.
SortPoliciesByTitle(policyMap) ==
    {m \in [BucketKeys -> UNION {SortSlice(policyMap[b]) : b \in BucketKeys}] :
        \A b \in BucketKeys : m[b] \in SortSlice(policyMap[b])}

(***************************************************************************)
(* State                                                                   *)
(*   cfg        the viper settings                                         *)
(*   policies   the list returned by GetAllSeveritiesWithoutImports        *)
(*   pc         position in runDocCommand / getDocumentation               *)
(*   i          index of the policy the loop is at                         *)
(*   documents  the documents map, in append order (an absent key is <<>>) *)
(*   origin     for every appended Document the index of its policy        *)
(*              (history, not program state)                               *)
(*   result     <<>> until getDocumentation returns a map, then <<map>>    *)
(*   err        the error runDocCommand returns, "" while there is none    *)
(*   file       the output file                                            *)
(*   log        the log entries written                                    *)
(*   fn         the anchor computation on its own (SpecAnchor)             *)
(***************************************************************************)
Init ==
    /\ cfg \in Configs
    /\ policies = <<>>
    /\ pc = "mkdir"
    /\ i = 1
    /\ documents = EmptyMap
    /\ origin = EmptyMap
    /\ result = <<>>
    /\ err = ""
    /\ file = "previous"
    /\ log = <<>>
    /\ fn = FnIdle

Fail(e) ==
    /\ pc' = "failed"
    /\ err' = e

Warn(k, msg) == [level |-> "warning", policy |-> k, msg |-> msg]

Info(msg) == [level |-> "info", policy |-> 0, msg |-> msg]

\* os.MkdirAll(outputDirectory)
MkdirAll ==
    /\ pc = "mkdir"
    /\ \E ok \in BOOLEAN :
          IF ok THEN pc' = "load" /\ err' = err
          ELSE Fail("create output dir")
    /\ UNCHANGED <<cfg, policies, i, documents, origin, result, file, log, fn>>

\* getDocumentation up to the loop.
LoadPolicies ==
    /\ pc = "load"
    /\ \E ok \in BOOLEAN :
          IF ok
          THEN /\ \E ps \in PolicyLists : policies' = ps
               /\ pc' = "loop"
               /\ err' = err
               /\ log' = IF cfg.noRego
                         THEN Append(log, Info("no-rego flag is set"))
                         ELSE log
          ELSE /\ Fail("get documentation: get all severities")
               /\ UNCHANGED <<policies, log>>
    /\ UNCHANGED <<cfg, i, documents, origin, result, file, fn>>

InLoop == pc = "loop" /\ i <= Len(policies)

\* A policy without title: warning, continue.
SkipUntitled ==
    /\ InLoop
    /\ policies[i].Title = <<>>
    /\ log' = Append(log, Warn(i, "No title set"))
    /\ i' = i + 1
    /\ UNCHANGED <<cfg, policies, pc, documents, origin, result, err, file, fn>>

\* No url configured and filepath.Abs or filepath.Rel fails.
FailPath ==
    /\ InLoop
    /\ policies[i].Title # <<>>
    /\ cfg.url = ""
    /\ \E e \in {"get abs path of output dir", "get abs path of policy",
                 "rel path"} : Fail("get documentation: " \o e)
    /\ UNCHANGED <<cfg, policies, i, documents, origin, result, file, log, fn>>

\* policy.Matchers() called before the title is looked at.
FailMatchersBeforeTitle ==
    /\ InLoop
    /\ policies[i].MatchersErr
    /\ Fail("get documentation: parse matchers from legacy annotations")
    /\ UNCHANGED <<cfg, policies, i, documents, origin, result, file, log, fn>>

\* policy.Matchers() fails.
FailMatchers ==
    /\ InLoop
    /\ policies[i].Title # <<>>
    /\ policies[i].MatchersErr
    /\ Fail("get documentation: parse matchers from legacy annotations")
    /\ UNCHANGED <<cfg, policies, i, documents, origin, result, file, log, fn>>

\* The warning about missing kind matchers, when it is due.
KindWarning(k) ==
    IF KindMatchersString(policies[k]) = <<>>
    THEN <<Warn(k, "No kind matchers set")>>
    ELSE <<>>

HasAnnotationParameters(p) == Cardinality(DOMAIN p.AnnotationParameters) > 0

\* annoParamsToLegacyFormat dereferences a nil pointer.
PanicParams ==
    /\ InLoop
    /\ policies[i].Title # <<>>
    /\ ~policies[i].MatchersErr
    /\ HasAnnotationParameters(policies[i])
    /\ ParamsPanic(policies[i].AnnotationParameters)
    /\ pc' = "panic"
    /\ log' = log \o KindWarning(i)
    /\ UNCHANGED <<cfg, policies, i, documents, origin, result, err, file, fn>>

\* One complete iteration: the Document is built and appended to its bucket.
AppendDocument ==
    /\ InLoop
    /\ policies[i].Title # <<>>
    /\ ~policies[i].MatchersErr
    /\ ~(HasAnnotationParameters(policies[i])
            /\ ParamsPanic(policies[i].AnnotationParameters))
    /\ \E labelOrder \in
            IF policies[i].AnnotationLabelSelectorMatcher # <<>>
            THEN LabelOrders(policies[i].AnnotationLabelSelectorMatcher[1])
            ELSE {<<>>},
          paramOrder \in Orders(DOMAIN policies[i].AnnotationParameters) :
          documents' =
              [documents EXCEPT ![Bucket(policies[i])] =
                  Append(@, MakeDocument(policies[i], cfg, labelOrder,
                                         paramOrder))]
    /\ origin' = [origin EXCEPT ![Bucket(policies[i])] = Append(@, i)]
    /\ log' = log \o KindWarning(i)
    /\ i' = i + 1
    /\ UNCHANGED <<cfg, policies, pc, result, err, file, fn>>

\* After the loop: sortPoliciesByTitle(documents); return documents, nil.
\* The sort is in place in the program; the model keeps documents in append
\* order and puts the sorted map in result.
ReturnDocuments ==
    /\ pc = "loop"
    /\ i > Len(policies)
    /\ \E m \in SortPoliciesByTitle(documents) : result' = <<m>>
    /\ pc' = "parse"
    /\ UNCHANGED <<cfg, policies, i, documents, origin, err, file, log, fn>>

\* template.New("docs").Parse(docTemplate)
ParseTemplate ==
    /\ pc = "parse"
    /\ \E ok \in BOOLEAN :
          IF ok THEN pc' = "open" /\ err' = err
          ELSE Fail("parsing template")
    /\ UNCHANGED <<cfg, policies, i, documents, origin, result, file, log, fn>>

\* os.OpenFile(output, O_CREATE|O_WRONLY|O_TRUNC): on success the file exists
\* and is empty.
OpenFile ==
    /\ pc = "open"
    /\ \E ok \in BOOLEAN :
          IF ok THEN pc' = "execute" /\ err' = err /\ file' = "empty"
          ELSE Fail("opening file for writing") /\ file' = file
    /\ UNCHANGED <<cfg, policies, i, documents, origin, result, log, fn>>

RECURSIVE SumLen(_, _)
SumLen(m, keys) ==
    IF keys = {} THEN 0
    ELSE LET b == CHOOSE b \in keys : TRUE
         IN Len(m[b]) + SumLen(m, keys \ {b})

\* numPolicies
NumPolicies(m) == SumLen(m, BucketKeys)

\* t.Execute(f, docs), then the final log entry.  A failing Execute leaves
\* whatever it had written so far.
Execute ==
    /\ pc = "execute"
    /\ \/ /\ file' = "complete"
          /\ pc' = "done"
          /\ err' = err
          /\ log' = Append(log,
                       [level |-> "info", policy |-> NumPolicies(result[1]),
                        msg |-> "completed successfully"])
       \/ /\ file' \in {"empty", "partial"}
          /\ Fail("executing template")
          /\ log' = log
    /\ UNCHANGED <<cfg, policies, i, documents, origin, result, fn>>

Next ==
    \/ MkdirAll
    \/ LoadPolicies
    \/ SkipUntitled
    \/ FailPath
    \/ FailMatchers
    \/ PanicParams
    \/ AppendDocument
    \/ ReturnDocuments
    \/ ParseTemplate
    \/ OpenFile
    \/ Execute

Spec == Init /\ [][Next]_vars

(***************************************************************************)
(* The anchor computation on its own: the policy id and the title are      *)
(* drawn from all strings over AnchorAlphabet up to AnchorMaxLen, plus the *)
(* documented example.                                                     *)
(***************************************************************************)
AnchorAlphabet == {" ", ":", "-", "A", "a", "B"}

AnchorStrings ==
    UNION {[1..n -> AnchorAlphabet] : n \in 0..AnchorMaxLen}

ExampleID == <<"P", "O", "L", "-", "1">>

ExampleTitle ==
    <<"R", "e", "q", "u", "i", "r", "e", " ", "L", "a", "b", "e", "l", "s">>

InitAnchor ==
    /\ cfg = [url |-> "", noRego |-> FALSE, includeComments |-> FALSE,
              output |-> <<"docs", "policies.md">>]
    /\ policies = <<>>
    /\ pc = "mkdir"
    /\ i = 1
    /\ documents = EmptyMap
    /\ origin = EmptyMap
    /\ result = <<>>
    /\ err = ""
    /\ file = "previous"
    /\ log = <<>>
    /\ \E id \in AnchorStrings \cup {ExampleID},
          title \in (AnchorStrings \ {<<>>}) \cup {ExampleTitle} :
          fn = [pc |-> "title",
                policy |-> <<[Base EXCEPT !.PolicyID = id, !.Title = title]>>,
                documentTitle |-> <<>>,
                anchor |-> <<>>]

\* documentTitle := ...
ComposeTitle ==
    /\ fn.pc = "title"
    /\ fn' = [fn EXCEPT !.pc = "anchor",
                        !.documentTitle = DocumentTitle(fn.policy[1])]
    /\ UNCHANGED mainVars

\* anchor := ...
MakeAnchor ==
    /\ fn.pc = "anchor"
    /\ fn' = [fn EXCEPT !.pc = "done", !.anchor = Anchor(fn.documentTitle)]
    /\ UNCHANGED mainVars

NextAnchor == ComposeTitle \/ MakeAnchor

SpecAnchor == InitAnchor /\ [][NextAnchor]_vars

(***************************************************************************)
(* Properties                                                              *)
(***************************************************************************)
\* Positions of the Documents appended so far.
Appended == UNION {{b} \X (1..Len(documents[b])) : b \in BucketKeys}

\* The policy the Document at position pos was built from.
PolicyAt(pos) == policies[origin[pos[1]][pos[2]]]

DocAt(pos) == documents[pos[1]][pos[2]]

\* Number of positions of sequence q that hold x.
Count(q, x) == Cardinality({k \in 1..Len(q) : q[k] = x})

Titled == {k \in 1..Len(policies) : policies[k].Title # <<>>}

Untitled == {k \in 1..Len(policies) : policies[k].Title = <<>>}

Returned == result # <<>>

\* The bucket the documented precedence gives a policy.
ExpectedBucket(p) ==
    CASE p.Severity = "" -> "Other"
      [] p.Severity # "" /\ p.Enforcement = "dryrun" -> "Not Enforced"
      [] OTHER -> p.Severity

\* C1: every titled policy the loop has passed is appended to exactly one
\* bucket, the one the precedence Other / Not Enforced / severity gives, the
\* appended Document carries its composed title, and after a successful
\* return every bucket holds as many Documents as there are titled policies
\* of that bucket.
C1_OneBucketByPrecedence ==
    /\ \A b \in BucketKeys : Len(documents[b]) = Len(origin[b])
    /\ \A k \in Titled : \A b \in BucketKeys :
          Count(origin[b], k) =
              IF k < i /\ b = ExpectedBucket(policies[k]) THEN 1 ELSE 0
    /\ \A pos \in Appended :
          DocAt(pos).Header.Title = DocumentTitle(PolicyAt(pos))
    /\ Returned =>
          \A b \in BucketKeys :
              Len(result[1][b]) =
                  Cardinality({k \in Titled :
                                  ExpectedBucket(policies[k]) = b})

\* A successful run over a dry-run policy with a severity and a dry-run
\* policy without one.
C1_Witness ==
    /\ Returned
    /\ \E k \in Titled :
          policies[k].Severity = "high" /\ policies[k].Enforcement = "dryrun"
    /\ \E k \in Titled :
          policies[k].Severity = "" /\ policies[k].Enforcement = "dryrun"
    /\ Len(result[1]["Not Enforced"]) = 1
    /\ Len(result[1]["Other"]) = 1

TitleWarnings(k) == Count(log, Warn(k, "No title set"))

\* C2: a policy without title yields no Document in any bucket and never is
\* the policy the run fails at; it is logged once and the loop goes on.
C2_UntitledSkipped ==
    /\ \A k \in Untitled :
          /\ \A b \in BucketKeys : Count(origin[b], k) = 0
          /\ pc \in {"failed", "panic"} => i # k
          /\ TitleWarnings(k) = IF k < i THEN 1 ELSE 0
    /\ NumPolicies(documents) = Cardinality({k \in Titled : k < i})

\* A run completed although its first policy has no title, unparsable legacy
\* matchers and an array parameter without items.
C2_Witness ==
    /\ pc = "done"
    /\ Len(policies) = 2
    /\ policies[1].Title = <<>>
    /\ policies[1].MatchersErr
    /\ policies[2].Title # <<>>
    /\ NumPolicies(result[1]) = 1

IsSorted(docs) ==
    \A j, k \in 1..Len(docs) :
        j < k => ~StrLess(docs[k].Header.Title, docs[j].Header.Title)

SameBag(q, r) ==
    /\ Len(q) = Len(r)
    /\ \A k \in 1..Len(q) : Count(q, q[k]) = Count(r, q[k])

\* C3: on a successful return every bucket is in ascending order of composed
\* title and holds exactly the Documents appended to it.
C3_BucketsSorted ==
    Returned =>
        \A b \in BucketKeys :
            IsSorted(result[1][b]) /\ SameBag(result[1][b], documents[b])

\* A bucket whose Documents were appended in descending order of title.
C3_Witness ==
    /\ Returned
    /\ \E b \in BucketKeys :
          /\ Len(documents[b]) = 2
          /\ StrLess(documents[b][2].Header.Title, documents[b][1].Header.Title)
          /\ result[1][b] = <<documents[b][2], documents[b][1]>>

\* C4: the Rego field is empty when no-rego is set, whatever include-comments
\* is; otherwise it is the full source when include-comments is set and the
\* comment-stripped source when not.
C4_RegoField ==
    \A pos \in Appended :
        /\ cfg.noRego => DocAt(pos).Rego = ""
        /\ ~cfg.noRego /\ cfg.includeComments =>
              DocAt(pos).Rego = PolicyAt(pos).FullSource
        /\ ~cfg.noRego /\ ~cfg.includeComments =>
              DocAt(pos).Rego = PolicyAt(pos).Source

\* A Document built with both no-rego and include-comments set.
C4_Witness ==
    /\ cfg.noRego
    /\ cfg.includeComments
    /\ \E pos \in Appended :
          DocAt(pos).Rego = "" /\ PolicyAt(pos).FullSource # ""

KindWarnings(k) == Count(log, Warn(k, "No kind matchers set"))

\* The structured kind matchers joined by single spaces and trimmed.
JoinedKinds(p) == TrimSpace(JoinSpace(p.AnnotationKindMatchers))

\* C5 as stated: Resources is the joined structured matchers whenever the
\* structured list is non-empty, the legacy string when the list is empty,
\* "Any Resource" with one warning when both are empty, and never empty.
C5_ResourcesAsStated ==
    \A pos \in Appended :
        LET p == PolicyAt(pos)
            r == DocAt(pos).Header.Resources
        IN /\ Len(p.AnnotationKindMatchers) > 0 => r = JoinedKinds(p)
           /\ Len(p.AnnotationKindMatchers) = 0 /\ p.LegacyKindMatchers # <<>>
                 => r = p.LegacyKindMatchers
           /\ Len(p.AnnotationKindMatchers) = 0 /\ p.LegacyKindMatchers = <<>>
                 => r = AnyResource /\ KindWarnings(origin[pos[1]][pos[2]]) = 1
           /\ r # <<>>

\* C5 (amended): the candidate is the joined structured matchers when the
\* structured list is non-empty and the legacy string otherwise; Resources
\* is the candidate when that is non-empty, and "Any Resource" with exactly
\* one warning when it is empty, also when the structured list is non-empty
\* but formats to nothing.  Resources is never empty.
C5_ResourcesFallback ==
    \A pos \in Appended :
        LET p == PolicyAt(pos)
            r == DocAt(pos).Header.Resources
            candidate == IF Len(p.AnnotationKindMatchers) > 0
                         THEN JoinedKinds(p)
                         ELSE p.LegacyKindMatchers
            warnings == KindWarnings(origin[pos[1]][pos[2]])
        IN /\ candidate # <<>> => r = candidate /\ warnings = 0
           /\ candidate = <<>> => r = AnyResource /\ warnings = 1
           /\ r # <<>>

\* A Document for a policy whose only structured kind matcher formats to the
\* empty string, next to legacy matchers that are not empty.
C5_Witness ==
    \E pos \in Appended :
        /\ Len(PolicyAt(pos).AnnotationKindMatchers) > 0
        /\ PolicyAt(pos).LegacyKindMatchers # <<>>
        /\ DocAt(pos).Header.Resources = AnyResource
        /\ KindWarnings(origin[pos[1]][pos[2]]) = 1

\* The keys of a label map in ascending order.
AscendingKeys(labels) ==
    CHOOSE o \in Orders(DOMAIN labels) :
        \A j, k \in DOMAIN o : j < k => StrLess(o[j], o[k])

\* C6: the label string of a structured selector lists the exact-match
\* labels in ascending key order, then the expressions, whatever order the
\* map is iterated in.
C6_LabelsDeterministic ==
    \A pos \in Appended :
        PolicyAt(pos).AnnotationLabelSelectorMatcher # <<>> =>
            LET sel == PolicyAt(pos).AnnotationLabelSelectorMatcher[1]
            IN DocAt(pos).Header.MatchLabels =
                   LabelSelectorDocString(sel, AscendingKeys(sel.MatchLabels))

\* The parameter entry the claim gives a structured parameter.
ExpectedParam(name, config) ==
    [Name |-> name,
     Description |-> config.Description,
     IsArray |-> (config.Type = "array"),
     Type |-> IF config.Type # "array" THEN config.Type
              ELSE IF NilDeref(config) THEN ""
              ELSE config.Items[1].Schema[1].Type]

\* C7: the conversion of the structured parameters never fails, and the
\* Parameters of a Document are one entry per structured parameter (array
\* entries with IsArray and the item type) when there are structured
\* parameters and the legacy list otherwise.
C7_ParametersConverted ==
    /\ pc # "panic"
    /\ \A pos \in Appended :
          LET p == PolicyAt(pos)
              ps == DocAt(pos).Header.Parameters
              names == DOMAIN p.AnnotationParameters
          IN IF names # {}
             THEN /\ Len(ps) = Cardinality(names)
                  /\ \A name \in names :
                        Count(ps, ExpectedParam(name,
                                      p.AnnotationParameters[name])) = 1
             ELSE ps = p.Parameters

\* The composed title of a policy.
ComposedTitle(p) ==
    IF p.PolicyID = <<>> THEN p.Title ELSE p.PolicyID \o <<":", " ">> \o p.Title

UpperCase == {c \in Chars : Byte[c] \in 65..90}

\* What the anchor has in place of one character of the title.
AnchorOf(c) ==
    IF c = " " THEN "-"
    ELSE IF c \in UpperCase THEN CHOOSE d \in Chars : Byte[d] = Byte[c] + 32
    ELSE c

NotColon(c) == c # ":"

ExampleAnchor ==
    <<"p", "o", "l", "-", "1", "-", "r", "e", "q", "u", "i", "r", "e", "-",
      "l", "a", "b", "e", "l", "s">>

\* C8: the anchor is the composed title with every space replaced by a
\* hyphen, lowercased and every colon removed: it has no space, no colon and
\* no upper-case letter, and "POL-1: Require Labels" gives
\* "pol-1-require-labels".
C8_AnchorFromTitle ==
    fn.pc = "done" =>
        LET t == ComposedTitle(fn.policy[1])
        IN /\ fn.documentTitle = t
           /\ fn.anchor =
                  SelectSeq([k \in 1..Len(t) |-> AnchorOf(t[k])], NotColon)
           /\ \A k \in 1..Len(fn.anchor) :
                  fn.anchor[k] \notin {" ", ":"} \cup UpperCase
           /\ (fn.policy[1].PolicyID = ExampleID
                  /\ fn.policy[1].Title = ExampleTitle)
                 => fn.anchor = ExampleAnchor

\* The anchor of the documented example has been computed.
C8_Witness ==
    /\ fn.pc = "done"
    /\ fn.policy[1].PolicyID = ExampleID
    /\ fn.policy[1].Title = ExampleTitle
    /\ fn.anchor = ExampleAnchor

GetDocumentationErrors ==
    {"get documentation: " \o e :
        e \in {"get all severities", "get abs path of output dir",
               "get abs path of policy", "rel path",
               "parse matchers from legacy annotations"}}

\* C9: a failed run retains nothing: getDocumentation returned no map when
\* the failure is its own, no policy after the failing one was processed,
\* and the output file is as it was before the run (never truncated or
\* partly written).
C9_NoPartialResults ==
    pc = "failed" =>
        /\ file = "previous"
        /\ err \in GetDocumentationErrors => result = <<>>
        /\ i <= Len(policies) =>
              err \in GetDocumentationErrors
                  /\ NumPolicies(documents) = Cardinality({k \in Titled : k < i})

\* The Documents of a slice that carry title t, in slice order.
WithTitle(docs, t) ==
    LET Same(d) == d.Header.Title = t IN SelectSeq(docs, Same)

\* C10: within every bucket Documents with equal composed titles keep the
\* order in which they were appended.
C10_SortStable ==
    Returned =>
        \A b \in BucketKeys : \A k \in 1..Len(documents[b]) :
            WithTitle(result[1][b], documents[b][k].Header.Title) =
                WithTitle(documents[b], documents[b][k].Header.Title)

====
